---- MODULE Spec2Model ----
(***************************************************************************)
(* State-machine model of the prediction-markets pallet                    *)
(* (zrml/prediction-markets/src/lib.rs).                                   *)
(*                                                                         *)
(* One action per dispatchable, plus Tick for on_finalize followed by the  *)
(* start of the next block.  The currency ledger (free / reserved) and the *)
(* outcome-share ledger are modelled by the primitives the pallet calls    *)
(* (reserve, unreserve, slash_reserved, resolve_creating, transfer,        *)
(* deposit, slash, destroy_all) with an existential deposit of zero.       *)
(* Option<T> is a sequence of length 0 (None) or 1 (Some).                 *)
(* Only MarketEnd::Block ends are created; deploy_swap_pool_for_market and *)
(* the global_dispute stub touch none of the modelled storage.             *)
(***************************************************************************)
EXTENDS Integers, Sequences, FiniteSets, TLC

\* ------------------------------------------------------------------ bounds
\* Spec explores every run of at most MaxCalls dispatchables on at most MaxMarkets
\* markets up to block MaxBlock.  SpecDeep gives one market one more dispatchable
\* (DeepCalls, DeepMarkets, DeepBlock) and SpecWide gives two markets two more
\* (WideCalls, MaxMarkets, WideBlock).  Both fix the oracle: with one market that
\* is no loss (the signing accounts start alike, so a run with the other oracle is
\* a renaming); with two it leaves out the runs whose markets have different oracles.
\* SpecLong is SpecDeep with one more block (LongCalls, DeepMarkets, LongBlock): a
\* market can be created, reported, disputed twice and resolved by the tick.
MaxBlock == 4
MaxMarkets == 2
MaxCalls == 3
DeepBlock == 3
DeepMarkets == 1
DeepCalls == 4
WideBlock == 4
WideCalls == 5
LongBlock == 4
LongCalls == 4

\* ------------------------------------------------- runtime configuration
DisputePeriod == 1
ReportingPeriod == 1
AdvisoryBond == 1
OracleBond == 1
ValidityBond == 2
DisputeBond == 1
DisputeFactor == 1
MaxDisputes == 2
MaxCategories == 2
FallbackOutcome == 69

Users == {1, 2}
InitialBalance == [u \in Users |-> 4]
Oracle == {1}
MarketIds == 0 .. (MaxMarkets - 1)
Blocks == 0 .. (MaxBlock + DeepBlock + WideBlock + LongBlock)
Outcomes == 0 .. (MaxCategories - 1)
Amounts == {1}
CategoryInputs == {MaxCategories}

\* ------------------------------------------------------------------ state
VARIABLES
    now,                        \* frame_system block_number of the block being built
    Markets,                    \* MarketId -> Option<Market>
    MarketCount,                \* next market id
    MarketIdsPerReportBlock,    \* BlockNumber -> Vec<MarketId>
    MarketIdsPerDisputeBlock,   \* BlockNumber -> Vec<MarketId>
    Disputes,                   \* MarketId -> Vec<MarketDispute>
    free,                       \* T::Currency free balance, users and market accounts
    reserved,                   \* T::Currency reserved balance of the users
    shares,                     \* T::Shares: MarketId -> outcome -> user -> balance
    halted,                     \* on_finalize panicked: no further block is produced
    calls,                      \* dispatchables executed so far
    limit,                      \* the run's budget: [calls, markets, blocks, oracles]
    round_trip,                 \* observer: a buy and the sell that directly follows it, or a redemption
    created,                    \* observer: ids returned by create, in order
    bond_in,                    \* observer: per market, currency reserved for it
    bond_out                    \* observer: per market, currency unreserved or slashed for it

vars == <<now, Markets, MarketCount, MarketIdsPerReportBlock, MarketIdsPerDisputeBlock,
          Disputes, free, reserved, shares, halted, calls, limit, round_trip, created,
          bond_in, bond_out>>

\* ---------------------------------------------------------------- helpers
None == <<>>
Some(x) == <<x>>
is_some(o) == o # <<>>
is_none(o) == o = <<>>
unwrap(o) == o[1]

Min(a, b) == IF a <= b THEN a ELSE b

RECURSIVE SumOver(_, _)
SumOver(f, S) == IF S = {} THEN 0
                 ELSE LET x == CHOOSE y \in S : TRUE IN f[x] + SumOver(f, S \ {x})

\* T::ModuleId::get().into_sub_account(market_id): one account per market,
\* disjoint from every signing account.
market_account(market_id) == 100 + market_id
Accounts == Users \cup {market_account(id) : id \in MarketIds}

market_exists(market_id) == market_id \in MarketIds /\ is_some(Markets[market_id])
market_by_id(market_id) == unwrap(Markets[market_id])

\* Market::outcomes() of a categorical market: its number of categories.
outcomes(market) == market.categories

\* is_market_active_inclusive is the faulty variant that counts the end block itself
\* as open.
is_market_active_inclusive(end) == now <= end
is_market_active(end) == now < end

\* Vec::iter().position(..) and Vec::swap_remove(pos)
position(items, item) ==
    IF \E i \in 1 .. Len(items) : items[i] = item
    THEN CHOOSE i \in 1 .. Len(items) : items[i] = item /\ \A j \in 1 .. (i - 1) : items[j] # item
    ELSE 0
contains(items, item) == position(items, item) # 0
remove_item(items, item) ==
    LET pos == position(items, item)
        n == Len(items)
    IN  [i \in 1 .. (n - 1) |-> IF i = pos THEN items[n] ELSE items[i]]

\* ------------------------------------------------ currency ledger primitives
\* A ledger L is [free, reserved]; each primitive returns the ledger after it.
Ledger == [free |-> free, reserved |-> reserved]
can_reserve(L, who, value) == L.free[who] >= value
reserve(L, who, value) ==
    [free |-> [L.free EXCEPT ![who] = @ - value],
     reserved |-> [L.reserved EXCEPT ![who] = @ + value]]
unreserve(L, who, value) ==
    LET actual == Min(L.reserved[who], value)
    IN  [free |-> [L.free EXCEPT ![who] = @ + actual],
         reserved |-> [L.reserved EXCEPT ![who] = @ - actual]]
\* slash_reserved returns the imbalance actually taken
slashed_amount(L, who, value) == Min(L.reserved[who], value)
slash_reserved(L, who, value) ==
    [L EXCEPT !.reserved[who] = @ - slashed_amount(L, who, value)]
resolve_creating(L, who, amount) == [L EXCEPT !.free[who] = @ + amount]
transfer(L, from, to, value) ==
    [L EXCEPT !.free = [[@ EXCEPT ![from] = @ - value] EXCEPT ![to] = @ + value]]
total_reserved(L) == SumOver(L.reserved, Users)

\* ---------------------------------------------------- share ledger primitives
share_balance(sh, market_id, outcome, who) == sh[market_id][outcome][who]
share_supply(sh, market_id, outcome) == SumOver(sh[market_id][outcome], Users)
deposit_set(sh, market_id, n, who, amount) ==
    [sh EXCEPT ![market_id] =
        [o \in Outcomes |-> IF o < n THEN [@[o] EXCEPT ![who] = @ + amount] ELSE @[o]]]
slash_set(sh, market_id, n, who, amount) ==
    [sh EXCEPT ![market_id] =
        [o \in Outcomes |-> IF o < n THEN [@[o] EXCEPT ![who] = @ - Min(@, amount)] ELSE @[o]]]
destroy_all(sh, market_id, os) ==
    [sh EXCEPT ![market_id] =
        [o \in Outcomes |-> IF o \in os THEN [u \in Users |-> 0] ELSE @[o]]]

\* ------------------------------------------------------------------- Init
InitWith(budget) ==
    /\ limit = budget
    /\ round_trip = None
    /\ now = 1
    /\ Markets = [id \in MarketIds |-> None]
    /\ MarketCount = 0
    /\ MarketIdsPerReportBlock = [b \in Blocks |-> <<>>]
    /\ MarketIdsPerDisputeBlock = [b \in Blocks |-> <<>>]
    /\ Disputes = [id \in MarketIds |-> <<>>]
    /\ free = [a \in Accounts |-> IF a \in Users THEN InitialBalance[a] ELSE 0]
    /\ reserved = [a \in Users |-> 0]
    /\ shares = [id \in MarketIds |-> [o \in Outcomes |-> [u \in Users |-> 0]]]
    /\ halted = FALSE
    /\ calls = 0
    /\ created = <<>>
    /\ bond_in = [id \in MarketIds |-> 0]
    /\ bond_out = [id \in MarketIds |-> 0]

Init == InitWith([calls |-> MaxCalls, markets |-> MaxMarkets, blocks |-> MaxBlock,
                  oracles |-> Users])
InitDeep == InitWith([calls |-> DeepCalls, markets |-> DeepMarkets, blocks |-> DeepBlock,
                      oracles |-> Oracle])
InitWide == InitWith([calls |-> WideCalls, markets |-> MaxMarkets, blocks |-> WideBlock,
                      oracles |-> Oracle])
InitLong == InitWith([calls |-> LongCalls, markets |-> DeepMarkets, blocks |-> LongBlock,
                      oracles |-> Oracle])

\* Every dispatchable runs inside a block that is still being produced.
CanCall == ~halted /\ calls < limit.calls

Called == calls' = calls + 1 /\ UNCHANGED <<now, halted, limit>>

\* the observer of the last buy, sell or redemption forgets at every other step
NoTrade == round_trip' = None

\* ------------------------------------------------ create_categorical_market
required_bond(creation) ==
    IF creation = "Permissionless" THEN ValidityBond + OracleBond
    ELSE AdvisoryBond + OracleBond

initial_status(creation) ==
    IF creation = "Permissionless" THEN "Active" ELSE "Proposed"

\* get_next_market_id: the id handed out and the counter it leaves
\* next_market_id_reused is the faulty variant that takes the id from the number of
\* markets stored, so that a deleted market's id returns.
next_market_id_reused == Cardinality({id \in MarketIds : is_some(Markets[id])})
next_market_id == MarketCount
incremented_market_count == MarketCount + 1

create_result(sender, oracle, end, creation, categories) ==
    IF ~(categories <= MaxCategories) THEN "CategoriesExceedMax"
    ELSE IF ~(now < end) THEN "EndBlockTooSoon"
    ELSE IF ~can_reserve(Ledger, sender, required_bond(creation)) THEN "InsufficientBalance"
    ELSE "Ok"

create_categorical_market(sender, oracle, end, creation, categories) ==
    /\ CanCall
    /\ MarketCount < limit.markets
    /\ create_result(sender, oracle, end, creation, categories) = "Ok"
    /\ LET L == reserve(Ledger, sender, required_bond(creation))
           market_id == next_market_id
           market == [creator |-> sender, creation |-> creation, oracle |-> oracle,
                      end |-> end, status |-> initial_status(creation), report |-> None,
                      categories |-> categories, resolved_outcome |-> None]
       IN  /\ free' = L.free
           /\ reserved' = L.reserved
           /\ MarketCount' = incremented_market_count
           /\ Markets' = [Markets EXCEPT ![market_id] = Some(market)]
           /\ created' = Append(created, market_id)
           /\ bond_in' = [bond_in EXCEPT ![market_id] = @ + required_bond(creation)]
    /\ Called
    /\ NoTrade
    /\ UNCHANGED <<MarketIdsPerReportBlock, MarketIdsPerDisputeBlock, Disputes, shares, bond_out>>

\* ---------------------------------------------------------- approve_market
approve_result(market_id) ==
    IF ~market_exists(market_id) THEN "MarketDoesNotExist" ELSE "Ok"

\* the status approve_market writes, whatever the status was
approved_status(market) == "Active"

approve_market(market_id) ==
    /\ CanCall
    /\ approve_result(market_id) = "Ok"
    /\ LET market == market_by_id(market_id)
           L == unreserve(Ledger, market.creator, AdvisoryBond)
       IN  /\ free' = L.free
           /\ reserved' = L.reserved
           /\ Markets' = [Markets EXCEPT ![market_id] =
                             Some([market EXCEPT !.status = approved_status(market)])]
           /\ bond_out' = [bond_out EXCEPT ![market_id] =
                             @ + total_reserved(Ledger) - total_reserved(L)]
    /\ Called
    /\ NoTrade
    /\ UNCHANGED <<MarketCount, MarketIdsPerReportBlock, MarketIdsPerDisputeBlock,
                   Disputes, shares, created, bond_in>>

\* ----------------------------------------------------------- reject_market
reject_result(market_id) ==
    IF ~market_exists(market_id) THEN "MarketDoesNotExist" ELSE "Ok"

reject_market(market_id) ==
    /\ CanCall
    /\ reject_result(market_id) = "Ok"
    /\ LET market == market_by_id(market_id)
           L == slash_reserved(Ledger, market.creator, AdvisoryBond)
       IN  /\ free' = L.free
           /\ reserved' = L.reserved
           /\ Markets' = [Markets EXCEPT ![market_id] = None]
           /\ bond_out' = [bond_out EXCEPT ![market_id] =
                             @ + total_reserved(Ledger) - total_reserved(L)]
    /\ Called
    /\ NoTrade
    /\ UNCHANGED <<MarketCount, MarketIdsPerReportBlock, MarketIdsPerDisputeBlock,
                   Disputes, shares, created, bond_in>>

\* --------------------------------------------------- cancel_pending_market
cancel_result(sender, market_id) ==
    IF ~market_exists(market_id) THEN "MarketDoesNotExist"
    ELSE IF market_by_id(market_id).creator # sender THEN "CancellerNotCreator"
    ELSE IF market_by_id(market_id).status # "Proposed" THEN "MarketNotPending"
    ELSE "Ok"

cancel_pending_market(sender, market_id) ==
    /\ CanCall
    /\ cancel_result(sender, market_id) = "Ok"
    /\ LET market == market_by_id(market_id)
           L == unreserve(Ledger, market.creator, AdvisoryBond)
       IN  /\ free' = L.free
           /\ reserved' = L.reserved
           /\ Markets' = [Markets EXCEPT ![market_id] = None]
           /\ bond_out' = [bond_out EXCEPT ![market_id] =
                             @ + total_reserved(Ledger) - total_reserved(L)]
    /\ Called
    /\ NoTrade
    /\ UNCHANGED <<MarketCount, MarketIdsPerReportBlock, MarketIdsPerDisputeBlock,
                   Disputes, shares, created, bond_in>>

\* -------------------------------------------------------- buy_complete_set
buy_result(who, market_id, amount) ==
    IF ~(free[who] >= amount) THEN "NotEnoughBalance"
    ELSE IF ~market_exists(market_id) THEN "MarketDoesNotExist"
    ELSE IF ~is_market_active(market_by_id(market_id).end) THEN "MarketNotActive"
    ELSE "Ok"

\* buy_ledger_unpaid is the faulty variant that mints the set without collecting
\* the payment.
buy_ledger_unpaid(L, who, market_id, amount) == L
\* do_buy_complete_set's writes: the currency ledger and the share ledger after it
buy_ledger(L, who, market_id, amount) ==
    transfer(L, who, market_account(market_id), amount)
buy_shares(sh, who, market_id, n, amount) == deposit_set(sh, market_id, n, who, amount)

buy_complete_set(who, market_id, amount) ==
    /\ CanCall
    /\ buy_result(who, market_id, amount) = "Ok"
    /\ LET market == market_by_id(market_id)
           L == buy_ledger(Ledger, who, market_id, amount)
       IN  /\ free' = L.free
           /\ reserved' = L.reserved
           /\ shares' = buy_shares(shares, who, market_id, outcomes(market), amount)
    /\ round_trip' = Some([stage |-> "bought", who |-> who, market_id |-> market_id,
                           amount |-> amount, free |-> free[who],
                           custody |-> free[market_account(market_id)],
                           shares |-> [o \in Outcomes |->
                                          share_balance(shares, market_id, o, who)]])
    /\ Called
    /\ UNCHANGED <<Markets, MarketCount, MarketIdsPerReportBlock, MarketIdsPerDisputeBlock,
                   Disputes, created, bond_in, bond_out>>

\* ------------------------------------------------------- sell_complete_set
\* the check-then-mutate first pass over 0..market.outcomes()
holds_complete_set(sh, who, market_id, n, amount) ==
    \A i \in 0 .. (n - 1) : share_balance(sh, market_id, i, who) >= amount

sell_result_in(L, sh, sender, market_id, amount) ==
    IF ~market_exists(market_id) THEN "MarketDoesNotExist"
    ELSE IF ~is_market_active(market_by_id(market_id).end) THEN "MarketNotActive"
    ELSE IF ~(L.free[market_account(market_id)] >= amount) THEN "InsufficientMarketReserves"
    ELSE IF ~holds_complete_set(sh, sender, market_id, outcomes(market_by_id(market_id)), amount)
         THEN "InsufficientShareBalance"
    ELSE "Ok"
sell_result(sender, market_id, amount) ==
    sell_result_in(Ledger, shares, sender, market_id, amount)

sell_ledger(L, sender, market_id, amount) ==
    transfer(L, market_account(market_id), sender, amount)
\* sell_shares_short is the faulty variant whose second pass stops one outcome short.
sell_shares_short(sh, sender, market_id, n, amount) ==
    slash_set(sh, market_id, n - 1, sender, amount)
sell_shares(sh, sender, market_id, n, amount) == slash_set(sh, market_id, n, sender, amount)

sell_complete_set(sender, market_id, amount) ==
    /\ CanCall
    /\ sell_result(sender, market_id, amount) = "Ok"
    /\ LET market == market_by_id(market_id)
           L == sell_ledger(Ledger, sender, market_id, amount)
       IN  /\ free' = L.free
           /\ reserved' = L.reserved
           /\ shares' = sell_shares(shares, sender, market_id, outcomes(market), amount)
    /\ round_trip' = IF /\ is_some(round_trip)
                        /\ unwrap(round_trip).stage = "bought"
                        /\ unwrap(round_trip).who = sender
                        /\ unwrap(round_trip).market_id = market_id
                        /\ unwrap(round_trip).amount = amount
                     THEN Some([unwrap(round_trip) EXCEPT !.stage = "sold"])
                     ELSE None
    /\ Called
    /\ UNCHANGED <<Markets, MarketCount, MarketIdsPerReportBlock, MarketIdsPerDisputeBlock,
                   Disputes, created, bond_in, bond_out>>

\* ------------------------------------------------------------------ report
\* report_result_short_grace is the faulty variant whose grace period ends one block
\* early (< instead of <=).
report_result_short_grace(sender, market_id, outcome) ==
    IF ~market_exists(market_id) THEN "MarketDoesNotExist"
    ELSE LET market == market_by_id(market_id) IN
         IF ~(outcome <= outcomes(market)) THEN "OutcomeOutOfRange"
         ELSE IF ~is_none(market.report) THEN "MarketAlreadyReported"
         ELSE IF is_market_active(market.end) THEN "MarketNotClosed"
         ELSE IF now < market.end + ReportingPeriod /\ sender # market.oracle
              THEN "ReporterNotOracle"
         ELSE "Ok"

\* report_result_repeatable is the faulty variant without the check that the market
\* has no report yet.
report_result_repeatable(sender, market_id, outcome) ==
    IF ~market_exists(market_id) THEN "MarketDoesNotExist"
    ELSE LET market == market_by_id(market_id) IN
         IF ~(outcome <= outcomes(market)) THEN "OutcomeOutOfRange"
         ELSE IF is_market_active(market.end) THEN "MarketNotClosed"
         ELSE IF now <= market.end + ReportingPeriod /\ sender # market.oracle
              THEN "ReporterNotOracle"
         ELSE "Ok"

report_result(sender, market_id, outcome) ==
    IF ~market_exists(market_id) THEN "MarketDoesNotExist"
    ELSE LET market == market_by_id(market_id) IN
         IF ~(outcome <= outcomes(market)) THEN "OutcomeOutOfRange"
         ELSE IF ~is_none(market.report) THEN "MarketAlreadyReported"
         ELSE IF is_market_active(market.end) THEN "MarketNotClosed"
         ELSE IF now <= market.end + ReportingPeriod /\ sender # market.oracle
              THEN "ReporterNotOracle"
         ELSE "Ok"

report(sender, market_id, outcome) ==
    /\ CanCall
    /\ report_result(sender, market_id, outcome) = "Ok"
    /\ LET market == market_by_id(market_id)
       IN  Markets' = [Markets EXCEPT ![market_id] =
               Some([market EXCEPT !.report = Some([at |-> now, by |-> sender,
                                                    outcome |-> outcome]),
                                   !.status = "Reported"])]
    /\ MarketIdsPerReportBlock' =
           [MarketIdsPerReportBlock EXCEPT ![now] = Append(@, market_id)]
    /\ Called
    /\ NoTrade
    /\ UNCHANGED <<MarketCount, MarketIdsPerDisputeBlock, Disputes, free, reserved, shares,
                   created, bond_in, bond_out>>

\* ----------------------------------------------------------------- dispute
dispute_bond(num_disputes) == DisputeBond + DisputeFactor * num_disputes

\* dispute_allowed_any_outcome is the faulty variant that never compares the outcome
\* with the last dispute's.
dispute_allowed_any_outcome(disputes, outcome) ==
    IF ~(Len(disputes) < MaxDisputes) THEN "MaxDisputesReached"
    ELSE "Ok"
\* the ensure! on the number of disputes and on the last dispute's outcome
dispute_allowed(disputes, outcome) ==
    IF ~(Len(disputes) < MaxDisputes) THEN "MaxDisputesReached"
    ELSE IF Len(disputes) > 0 /\ disputes[Len(disputes)].outcome = outcome
         THEN "CannotDisputeSameOutcome"
    ELSE "Ok"

dispute_result(sender, market_id, outcome) ==
    IF ~market_exists(market_id) THEN "MarketDoesNotExist"
    ELSE LET market == market_by_id(market_id)
             disputes == Disputes[market_id]
             num_disputes == Len(disputes)
         IN
         IF ~is_some(market.report) THEN "MarketNotReported"
         ELSE IF ~(outcome < outcomes(market)) THEN "OutcomeOutOfRange"
         ELSE IF dispute_allowed(disputes, outcome) # "Ok" THEN dispute_allowed(disputes, outcome)
         ELSE IF ~can_reserve(Ledger, sender, dispute_bond(num_disputes))
              THEN "InsufficientBalance"
         \* remove_item unwraps the position of the id in the previous dispute's bucket
         ELSE IF num_disputes > 0
                 /\ ~contains(MarketIdsPerDisputeBlock[disputes[num_disputes].at], market_id)
              THEN "Panic"
         ELSE "Ok"

\* dispute_index_keeps_previous is the faulty variant that leaves the id in the
\* previous dispute's bucket.
dispute_index_keeps_previous(index, disputes, market_id) ==
    [index EXCEPT ![now] = Append(@, market_id)]
\* the dispute-window index after a dispute on market_id at the current block
dispute_index(index, disputes, market_id) ==
    LET cleared == IF Len(disputes) > 0
                   THEN [index EXCEPT ![disputes[Len(disputes)].at] = remove_item(@, market_id)]
                   ELSE index
    IN  [cleared EXCEPT ![now] = Append(@, market_id)]

\* pushed_dispute_overwrites is the faulty variant that keeps the new dispute only.
pushed_dispute_overwrites(disputes, sender, outcome) ==
    <<[at |-> now, by |-> sender, outcome |-> outcome]>>
\* <Disputes<T>>::mutate(market_id, |disputes| disputes.push(MarketDispute { .. }))
pushed_dispute(disputes, sender, outcome) ==
    Append(disputes, [at |-> now, by |-> sender, outcome |-> outcome])

dispute(sender, market_id, outcome) ==
    /\ CanCall
    /\ dispute_result(sender, market_id, outcome) = "Ok"
    /\ LET market == market_by_id(market_id)
           disputes == Disputes[market_id]
           L == reserve(Ledger, sender, dispute_bond(Len(disputes)))
       IN  /\ free' = L.free
           /\ reserved' = L.reserved
           /\ MarketIdsPerDisputeBlock' =
                  dispute_index(MarketIdsPerDisputeBlock, disputes, market_id)
           /\ Disputes' = [Disputes EXCEPT ![market_id] = pushed_dispute(@, sender, outcome)]
           /\ Markets' = [Markets EXCEPT ![market_id] =
                  Some([market EXCEPT !.status = "Disputed"])]
           /\ bond_in' = [bond_in EXCEPT ![market_id] = @ + dispute_bond(Len(disputes))]
    /\ Called
    /\ NoTrade
    /\ UNCHANGED <<MarketCount, MarketIdsPerReportBlock, shares, created, bond_out>>

\* ---------------------------------------------------------- internal_resolve
\* A world W is the storage internal_resolve reads and writes:
\* [Markets, L (currency ledger), shares, bond_out].
World == [Markets |-> Markets, L |-> Ledger, shares |-> shares, bond_out |-> bond_out]

\* resolved_outcome_of_first is the faulty variant that takes the first dispute's
\* outcome instead of the last's.
resolved_outcome_of_first(market, disputes) ==
    IF market.status = "Reported" THEN unwrap(market.report).outcome
    ELSE IF market.status = "Disputed" THEN disputes[1].outcome
    ELSE FallbackOutcome

\* resolved_outcome_of_report is the faulty variant that resolves a Disputed market
\* to the outcome of its report.
resolved_outcome_of_report(market, disputes) ==
    IF market.status \in {"Reported", "Disputed"} THEN unwrap(market.report).outcome
    ELSE FallbackOutcome

resolved_outcome_of(market, disputes) ==
    IF market.status = "Reported" THEN unwrap(market.report).outcome
    ELSE IF market.status = "Disputed" THEN disputes[Len(disputes)].outcome
    ELSE FallbackOutcome

\* the oracle-bond branch of a Reported market
settle_reported(L, market) ==
    LET r == unwrap(market.report)
    IN  IF r.by = market.oracle
        THEN unreserve(L, market.creator, OracleBond)
        ELSE resolve_creating(slash_reserved(L, market.creator, OracleBond), r.by,
                              slashed_amount(L, market.creator, OracleBond))

\* the loop over the disputes: S is [L, pool (overall_imbalance), correct (correct_reporters)]
RECURSIVE settle_disputes(_, _, _, _)
settle_disputes(S, disputes, i, resolved_outcome) ==
    IF i > Len(disputes) THEN S
    ELSE LET d == disputes[i]
             bond == dispute_bond(i - 1)
         IN  IF d.outcome = resolved_outcome
             THEN settle_disputes([L |-> unreserve(S.L, d.by, bond), pool |-> S.pool,
                                   correct |-> Append(S.correct, d.by)],
                                  disputes, i + 1, resolved_outcome)
             ELSE settle_disputes([L |-> slash_reserved(S.L, d.by, bond),
                                   pool |-> S.pool + slashed_amount(S.L, d.by, bond),
                                   correct |-> S.correct],
                                  disputes, i + 1, resolved_outcome)

\* the reward loop: split(reward_per_each) takes at most what the imbalance holds
RECURSIVE pay_rewards(_, _, _, _, _)
pay_rewards(L, pool, correct, i, reward_per_each) ==
    IF i > Len(correct) THEN L
    ELSE pay_rewards(resolve_creating(L, correct[i], Min(pool, reward_per_each)),
                     pool - Min(pool, reward_per_each), correct, i + 1, reward_per_each)

\* the state of the Disputed branch before the reward division
disputed_settlement(L, market, disputes, resolved_outcome) ==
    LET r == unwrap(market.report)
        S0 == IF r.outcome = resolved_outcome
              THEN [L |-> unreserve(L, market.creator, OracleBond), pool |-> 0,
                    correct |-> <<>>]
              ELSE [L |-> slash_reserved(L, market.creator, OracleBond),
                    pool |-> slashed_amount(L, market.creator, OracleBond),
                    correct |-> <<>>]
    IN  settle_disputes(S0, disputes, 1, resolved_outcome)

settle_disputed(L, market, disputes, resolved_outcome) ==
    LET S == disputed_settlement(L, market, disputes, resolved_outcome)
    IN  pay_rewards(S.L, S.pool, S.correct, 1, S.pool \div Len(S.correct))

\* internal_resolve returns Err (market_by_id, NO_REPORT) or panics (index of the
\* last dispute of an empty vector, division by zero correct reporters)
resolve_fails(W, market_id) ==
    \/ is_none(W.Markets[market_id])
    \/ is_none(unwrap(W.Markets[market_id]).report)
    \/ /\ unwrap(W.Markets[market_id]).status = "Disputed"
       /\ \/ Len(Disputes[market_id]) = 0
          \/ Len(disputed_settlement(W.L, unwrap(W.Markets[market_id]), Disputes[market_id],
                     resolved_outcome_of(unwrap(W.Markets[market_id]),
                                         Disputes[market_id])).correct) = 0

\* losing_outcomes_winner_too is the faulty variant that does not skip the winning
\* outcome.
losing_outcomes_winner_too(market, resolved_outcome) == 0 .. (outcomes(market) - 1)
\* the outcomes whose shares internal_resolve destroys
losing_outcomes(market, resolved_outcome) ==
    {i \in 0 .. (outcomes(market) - 1) : i # resolved_outcome}

\* the market record internal_resolve leaves
resolved_market(market, resolved_outcome) ==
    [market EXCEPT !.status = "Resolved", !.resolved_outcome = Some(resolved_outcome)]

internal_resolve(W, market_id) ==
    LET market == unwrap(W.Markets[market_id])
        disputes == Disputes[market_id]
        resolved_outcome == resolved_outcome_of(market, disputes)
        L1 == unreserve(W.L, market.creator, ValidityBond)
        L2 == IF market.status = "Reported" THEN settle_reported(L1, market)
              ELSE IF market.status = "Disputed"
                   THEN settle_disputed(L1, market, disputes, resolved_outcome)
              ELSE L1
    IN  [Markets |-> [W.Markets EXCEPT ![market_id] =
                         Some(resolved_market(market, resolved_outcome))],
         L |-> L2,
         shares |-> destroy_all(W.shares, market_id, losing_outcomes(market, resolved_outcome)),
         bond_out |-> [W.bond_out EXCEPT ![market_id] =
                         @ + total_reserved(W.L) - total_reserved(L2)]]

\* ------------------------------------------------------------- on_finalize
\* Each fold returns [ok, W]; ok = FALSE is the panic of an expect().
RECURSIVE resolve_reported(_, _, _)
resolve_reported(W, ids, i) ==
    IF i > Len(ids) THEN [ok |-> TRUE, W |-> W]
    ELSE IF is_none(W.Markets[ids[i]]) THEN [ok |-> FALSE, W |-> W]
    ELSE IF unwrap(W.Markets[ids[i]]).status # "Reported" THEN resolve_reported(W, ids, i + 1)
    ELSE IF resolve_fails(W, ids[i]) THEN [ok |-> FALSE, W |-> W]
    ELSE resolve_reported(internal_resolve(W, ids[i]), ids, i + 1)

RECURSIVE resolve_disputed(_, _, _)
resolve_disputed(W, ids, i) ==
    IF i > Len(ids) THEN [ok |-> TRUE, W |-> W]
    ELSE IF resolve_fails(W, ids[i]) THEN [ok |-> FALSE, W |-> W]
    ELSE resolve_disputed(internal_resolve(W, ids[i]), ids, i + 1)

\* matured_block_early is the faulty variant that processes the buckets one block
\* before the dispute period is over.
matured_block_early(n) == n - DisputePeriod + 1
\* the block whose buckets on_finalize(n) processes
matured_block(n) == n - DisputePeriod

on_finalize(W, n) ==
    IF n <= DisputePeriod THEN [ok |-> TRUE, W |-> W]
    ELSE LET r == resolve_reported(W, MarketIdsPerReportBlock[matured_block(n)], 1)
         IN  IF ~r.ok THEN r
             ELSE resolve_disputed(r.W, MarketIdsPerDisputeBlock[matured_block(n)], 1)

\* on_finalize of the current block, then the next block begins
Tick ==
    /\ ~halted
    /\ now < limit.blocks
    /\ NoTrade
    /\ LET r == on_finalize(World, now)
       IN  IF r.ok
           THEN /\ Markets' = r.W.Markets
                /\ free' = r.W.L.free
                /\ reserved' = r.W.L.reserved
                /\ shares' = r.W.shares
                /\ bond_out' = r.W.bond_out
                /\ now' = now + 1
                /\ halted' = FALSE
           ELSE /\ halted' = TRUE
                /\ UNCHANGED <<Markets, free, reserved, shares, bond_out, now>>
    /\ UNCHANGED <<MarketCount, MarketIdsPerReportBlock, MarketIdsPerDisputeBlock, Disputes,
                   calls, limit, created, bond_in>>

\* ------------------------------------------------------ clear_auto_resolve
\* remove_item unwraps the position of the id: absent, the call panics
clear_panics(market_id) ==
    LET market == market_by_id(market_id)
    IN  \/ /\ market.status = "Reported"
           /\ ~contains(MarketIdsPerReportBlock[unwrap(market.report).at], market_id)
        \/ /\ market.status = "Disputed"
           /\ \/ Len(Disputes[market_id]) = 0
              \/ ~contains(MarketIdsPerDisputeBlock[
                               Disputes[market_id][Len(Disputes[market_id])].at], market_id)

cleared_report_index(market_id) ==
    LET market == market_by_id(market_id)
    IN  IF market.status = "Reported"
        THEN [MarketIdsPerReportBlock EXCEPT ![unwrap(market.report).at] =
                 remove_item(@, market_id)]
        ELSE MarketIdsPerReportBlock

cleared_dispute_index(market_id) ==
    LET market == market_by_id(market_id)
    IN  IF market.status = "Disputed"
        THEN [MarketIdsPerDisputeBlock EXCEPT
                 ![Disputes[market_id][Len(Disputes[market_id])].at] =
                     remove_item(@, market_id)]
        ELSE MarketIdsPerDisputeBlock

\* ---------------------------------------------------- admin_destroy_market
destroy_result(market_id) ==
    IF ~market_exists(market_id) THEN "MarketDoesNotExist"
    ELSE IF clear_panics(market_id) THEN "Panic"
    ELSE "Ok"

admin_destroy_market(market_id) ==
    /\ CanCall
    /\ destroy_result(market_id) = "Ok"
    /\ MarketIdsPerReportBlock' = cleared_report_index(market_id)
    /\ MarketIdsPerDisputeBlock' = cleared_dispute_index(market_id)
    /\ Markets' = [Markets EXCEPT ![market_id] = None]
    /\ shares' = destroy_all(shares, market_id,
                             0 .. (outcomes(market_by_id(market_id)) - 1))
    /\ Called
    /\ NoTrade
    /\ UNCHANGED <<MarketCount, Disputes, free, reserved, created, bond_in, bond_out>>

\* --------------------------------------------- admin_move_market_to_closed
close_result(market_id) ==
    IF ~market_exists(market_id) THEN "MarketDoesNotExist" ELSE "Ok"

admin_move_market_to_closed(market_id) ==
    /\ CanCall
    /\ close_result(market_id) = "Ok"
    /\ Markets' = [Markets EXCEPT ![market_id] =
                      Some([market_by_id(market_id) EXCEPT !.end = now])]
    /\ Called
    /\ NoTrade
    /\ UNCHANGED <<MarketCount, MarketIdsPerReportBlock, MarketIdsPerDisputeBlock, Disputes,
                   free, reserved, shares, created, bond_in, bond_out>>

\* ------------------------------------------- admin_move_market_to_resolved
force_resolve_result(market_id) ==
    IF ~market_exists(market_id) THEN "MarketDoesNotExist"
    ELSE IF ~(market_by_id(market_id).status \in {"Reported", "Disputed"})
         THEN "NotReportedNorDisputed"
    ELSE IF clear_panics(market_id) \/ resolve_fails(World, market_id) THEN "Panic"
    ELSE "Ok"

admin_move_market_to_resolved(market_id) ==
    /\ CanCall
    /\ force_resolve_result(market_id) = "Ok"
    /\ MarketIdsPerReportBlock' = cleared_report_index(market_id)
    /\ MarketIdsPerDisputeBlock' = cleared_dispute_index(market_id)
    /\ LET W == internal_resolve(World, market_id)
       IN  /\ Markets' = W.Markets
           /\ free' = W.L.free
           /\ reserved' = W.L.reserved
           /\ shares' = W.shares
           /\ bond_out' = W.bond_out
    /\ Called
    /\ NoTrade
    /\ UNCHANGED <<MarketCount, Disputes, created, bond_in>>

\* ----------------------------------------------------------- redeem_shares
\* T::Shares::free_balance of the winning share id; an id no set ever minted is empty
winning_balance(sh, market_id, resolved_outcome, who) ==
    IF resolved_outcome \in Outcomes THEN share_balance(sh, market_id, resolved_outcome, who)
    ELSE 0

redeem_result(sender, market_id) ==
    IF ~market_exists(market_id) THEN "MarketDoesNotExist"
    ELSE LET market == market_by_id(market_id) IN
         IF market.status # "Resolved" THEN "MarketNotResolved"
         ELSE IF is_none(market.resolved_outcome) THEN "NOT_RESOLVED"
         ELSE IF ~(winning_balance(shares, market_id, unwrap(market.resolved_outcome), sender) >= 0)
              THEN "NoWinningBalance"
         ELSE IF ~(free[market_account(market_id)] >=
                   winning_balance(shares, market_id, unwrap(market.resolved_outcome), sender))
              THEN "InsufficientFundsInMarketAccount"
         ELSE "Ok"

\* redeem_payout_double is the faulty variant that pays two units per winning share.
redeem_payout_double(winning) == 2 * winning
\* the payout: one unit of currency per winning share
redeem_payout(winning) == winning

\* T::Shares::slash of the winning shares redeemed
redeem_burn(sh, sender, market_id, resolved_outcome, winning) ==
    IF resolved_outcome \in Outcomes
    THEN [sh EXCEPT ![market_id][resolved_outcome][sender] = @ - Min(@, winning)]
    ELSE sh

redeem_shares(sender, market_id) ==
    /\ CanCall
    /\ redeem_result(sender, market_id) = "Ok"
    /\ LET market == market_by_id(market_id)
           ro == unwrap(market.resolved_outcome)
           w == winning_balance(shares, market_id, ro, sender)
           L == transfer(Ledger, market_account(market_id), sender, redeem_payout(w))
       IN  /\ shares' = redeem_burn(shares, sender, market_id, ro, w)
           /\ free' = L.free
           /\ reserved' = L.reserved
           /\ round_trip' = Some([stage |-> "redeemed", who |-> sender,
                                  market_id |-> market_id, amount |-> w,
                                  free |-> free[sender],
                                  custody |-> free[market_account(market_id)],
                                  shares |-> [o \in Outcomes |->
                                                 share_balance(shares, market_id, o, sender)]])
    /\ Called
    /\ UNCHANGED <<Markets, MarketCount, MarketIdsPerReportBlock, MarketIdsPerDisputeBlock,
                   Disputes, created, bond_in, bond_out>>

\* ------------------------------------------ the dispatchables, statement by statement
\* Each *_call runs the dispatchable's statements in the order of the code on the
\* current storage and returns [S, ret]: the storage as the call leaves it and
\* what it returns ("Ok", the error of the ensure! or ? that stopped it, or
\* "Panic").  A ? on T::Currency::transfer fails when the source's free balance is
\* short; T::Shares::deposit and get_next_market_id fail on overflow only, which
\* no modelled run reaches.
Storage ==
    [Markets |-> Markets, MarketCount |-> MarketCount,
     MarketIdsPerReportBlock |-> MarketIdsPerReportBlock,
     MarketIdsPerDisputeBlock |-> MarketIdsPerDisputeBlock,
     Disputes |-> Disputes, L |-> Ledger, shares |-> shares]

can_transfer(L, from, value) == L.free[from] >= value

create_call(sender, oracle, end, creation, categories) ==
    LET S == Storage IN
    IF ~(categories <= MaxCategories) THEN [S |-> S, ret |-> "CategoriesExceedMax"]
    ELSE IF ~(now < end) THEN [S |-> S, ret |-> "EndBlockTooSoon"]
    ELSE IF ~can_reserve(S.L, sender, required_bond(creation))
         THEN [S |-> S, ret |-> "InsufficientBalance"]
    ELSE LET S1 == [S EXCEPT !.L = reserve(@, sender, required_bond(creation))]
             market_id == S1.MarketCount
             S2 == [S1 EXCEPT !.MarketCount = @ + 1]
             market == [creator |-> sender, creation |-> creation, oracle |-> oracle,
                        end |-> end, status |-> initial_status(creation), report |-> None,
                        categories |-> categories, resolved_outcome |-> None]
         IN  [S |-> [S2 EXCEPT !.Markets[market_id] = Some(market)], ret |-> "Ok"]

cancel_call(sender, market_id) ==
    LET S == Storage IN
    IF ~market_exists(market_id) THEN [S |-> S, ret |-> "MarketDoesNotExist"]
    ELSE LET market == market_by_id(market_id) IN
         IF market.creator # sender THEN [S |-> S, ret |-> "CancellerNotCreator"]
         ELSE IF market.status # "Proposed" THEN [S |-> S, ret |-> "MarketNotPending"]
         ELSE LET S1 == [S EXCEPT !.L = unreserve(@, market.creator, AdvisoryBond)]
              IN  [S |-> [S1 EXCEPT !.Markets[market_id] = None], ret |-> "Ok"]

buy_call(who, market_id, amount) ==
    LET S == Storage IN
    IF ~(S.L.free[who] >= amount) THEN [S |-> S, ret |-> "NotEnoughBalance"]
    ELSE IF ~market_exists(market_id) THEN [S |-> S, ret |-> "MarketDoesNotExist"]
    ELSE LET market == market_by_id(market_id) IN
         IF ~is_market_active(market.end) THEN [S |-> S, ret |-> "MarketNotActive"]
         ELSE IF ~can_transfer(S.L, who, amount) THEN [S |-> S, ret |-> "InsufficientBalance"]
         ELSE LET S1 == [S EXCEPT !.L = buy_ledger(@, who, market_id, amount)]
              IN  [S |-> [S1 EXCEPT !.shares =
                                buy_shares(@, who, market_id, outcomes(market), amount)],
                   ret |-> "Ok"]

sell_call(sender, market_id, amount) ==
    LET S == Storage IN
    IF ~market_exists(market_id) THEN [S |-> S, ret |-> "MarketDoesNotExist"]
    ELSE LET market == market_by_id(market_id) IN
         IF ~is_market_active(market.end) THEN [S |-> S, ret |-> "MarketNotActive"]
         ELSE IF ~(S.L.free[market_account(market_id)] >= amount)
              THEN [S |-> S, ret |-> "InsufficientMarketReserves"]
         ELSE IF ~holds_complete_set(S.shares, sender, market_id, outcomes(market), amount)
              THEN [S |-> S, ret |-> "InsufficientShareBalance"]
         ELSE LET S1 == [S EXCEPT !.shares =
                            sell_shares(@, sender, market_id, outcomes(market), amount)]
              IN  IF ~can_transfer(S1.L, market_account(market_id), amount)
                  THEN [S |-> S1, ret |-> "InsufficientBalance"]
                  ELSE [S |-> [S1 EXCEPT !.L = sell_ledger(@, sender, market_id, amount)],
                        ret |-> "Ok"]

report_call(sender, market_id, outcome) ==
    LET S == Storage IN
    IF ~market_exists(market_id) THEN [S |-> S, ret |-> "MarketDoesNotExist"]
    ELSE LET market == market_by_id(market_id) IN
         IF ~(outcome <= outcomes(market)) THEN [S |-> S, ret |-> "OutcomeOutOfRange"]
         ELSE IF ~is_none(market.report) THEN [S |-> S, ret |-> "MarketAlreadyReported"]
         ELSE IF is_market_active(market.end) THEN [S |-> S, ret |-> "MarketNotClosed"]
         ELSE IF now <= market.end + ReportingPeriod /\ sender # market.oracle
              THEN [S |-> S, ret |-> "ReporterNotOracle"]
         ELSE LET reported == [market EXCEPT !.report = Some([at |-> now, by |-> sender,
                                                              outcome |-> outcome]),
                                             !.status = "Reported"]
                  S1 == [S EXCEPT !.Markets[market_id] = Some(reported)]
              IN  [S |-> [S1 EXCEPT !.MarketIdsPerReportBlock[now] = Append(@, market_id)],
                   ret |-> "Ok"]

\* dispute_call_reserve_first is the faulty variant that reserves the dispute bond
\* before it compares the outcome with the last dispute's.
dispute_call_reserve_first(sender, market_id, outcome) ==
    LET S == Storage IN
    IF ~market_exists(market_id) THEN [S |-> S, ret |-> "MarketDoesNotExist"]
    ELSE LET market == market_by_id(market_id)
             disputes == S.Disputes[market_id]
             num_disputes == Len(disputes)
         IN
         IF ~is_some(market.report) THEN [S |-> S, ret |-> "MarketNotReported"]
         ELSE IF ~(outcome < outcomes(market)) THEN [S |-> S, ret |-> "OutcomeOutOfRange"]
         ELSE IF ~(num_disputes < MaxDisputes) THEN [S |-> S, ret |-> "MaxDisputesReached"]
         ELSE IF ~can_reserve(S.L, sender, dispute_bond(num_disputes))
              THEN [S |-> S, ret |-> "InsufficientBalance"]
         ELSE LET S1 == [S EXCEPT !.L = reserve(@, sender, dispute_bond(num_disputes))] IN
              IF num_disputes > 0 /\ disputes[num_disputes].outcome = outcome
              THEN [S |-> S1, ret |-> "CannotDisputeSameOutcome"]
              ELSE IF num_disputes > 0
                      /\ ~contains(S1.MarketIdsPerDisputeBlock[disputes[num_disputes].at],
                                   market_id)
                   THEN [S |-> S1, ret |-> "Panic"]
              ELSE [S |-> [S1 EXCEPT
                             !.MarketIdsPerDisputeBlock =
                                 dispute_index(@, disputes, market_id),
                             !.Disputes[market_id] = pushed_dispute(@, sender, outcome),
                             !.Markets[market_id] =
                                 Some([market EXCEPT !.status = "Disputed"])],
                    ret |-> "Ok"]

dispute_call(sender, market_id, outcome) ==
    LET S == Storage IN
    IF ~market_exists(market_id) THEN [S |-> S, ret |-> "MarketDoesNotExist"]
    ELSE LET market == market_by_id(market_id)
             disputes == S.Disputes[market_id]
             num_disputes == Len(disputes)
         IN
         IF ~is_some(market.report) THEN [S |-> S, ret |-> "MarketNotReported"]
         ELSE IF ~(outcome < outcomes(market)) THEN [S |-> S, ret |-> "OutcomeOutOfRange"]
         ELSE IF dispute_allowed(disputes, outcome) # "Ok"
              THEN [S |-> S, ret |-> dispute_allowed(disputes, outcome)]
         ELSE IF ~can_reserve(S.L, sender, dispute_bond(num_disputes))
              THEN [S |-> S, ret |-> "InsufficientBalance"]
         ELSE LET S1 == [S EXCEPT !.L = reserve(@, sender, dispute_bond(num_disputes))] IN
              IF num_disputes > 0
                 /\ ~contains(S1.MarketIdsPerDisputeBlock[disputes[num_disputes].at],
                              market_id)
              THEN [S |-> S1, ret |-> "Panic"]
              ELSE [S |-> [S1 EXCEPT
                             !.MarketIdsPerDisputeBlock =
                                 dispute_index(@, disputes, market_id),
                             !.Disputes[market_id] = pushed_dispute(@, sender, outcome),
                             !.Markets[market_id] =
                                 Some([market EXCEPT !.status = "Disputed"])],
                    ret |-> "Ok"]

redeem_call(sender, market_id) ==
    LET S == Storage IN
    IF ~market_exists(market_id) THEN [S |-> S, ret |-> "MarketDoesNotExist"]
    ELSE LET market == market_by_id(market_id) IN
         IF market.status # "Resolved" THEN [S |-> S, ret |-> "MarketNotResolved"]
         ELSE IF is_none(market.resolved_outcome) THEN [S |-> S, ret |-> "NOT_RESOLVED"]
         ELSE LET ro == unwrap(market.resolved_outcome)
                  w == winning_balance(S.shares, market_id, ro, sender)
              IN
              IF ~(w >= 0) THEN [S |-> S, ret |-> "NoWinningBalance"]
              ELSE IF ~(S.L.free[market_account(market_id)] >= w)
                   THEN [S |-> S, ret |-> "InsufficientFundsInMarketAccount"]
              ELSE LET S1 == [S EXCEPT !.shares = redeem_burn(@, sender, market_id, ro, w)]
                   IN  IF ~can_transfer(S1.L, market_account(market_id), redeem_payout(w))
                       THEN [S |-> S1, ret |-> "InsufficientBalance"]
                       ELSE [S |-> [S1 EXCEPT !.L = transfer(@, market_account(market_id),
                                                             sender, redeem_payout(w))],
                             ret |-> "Ok"]

\* ---------------------------------------------------------- specification
Next ==
    \/ \E sender \in Users, oracle \in limit.oracles, end \in {now + 1},
          creation \in {"Permissionless", "Advised"}, categories \in CategoryInputs :
            create_categorical_market(sender, oracle, end, creation, categories)
    \/ \E market_id \in MarketIds : approve_market(market_id)
    \/ \E market_id \in MarketIds : reject_market(market_id)
    \/ \E sender \in Users, market_id \in MarketIds : cancel_pending_market(sender, market_id)
    \/ \E who \in Users, market_id \in MarketIds, amount \in Amounts :
            buy_complete_set(who, market_id, amount)
    \/ \E sender \in Users, market_id \in MarketIds, amount \in Amounts :
            sell_complete_set(sender, market_id, amount)
    \/ \E sender \in Users, market_id \in MarketIds, outcome \in 0 .. MaxCategories :
            report(sender, market_id, outcome)
    \/ \E sender \in Users, market_id \in MarketIds, outcome \in 0 .. MaxCategories :
            dispute(sender, market_id, outcome)
    \/ \E sender \in Users, market_id \in MarketIds : redeem_shares(sender, market_id)
    \/ \E market_id \in MarketIds : admin_destroy_market(market_id)
    \/ \E market_id \in MarketIds : admin_move_market_to_closed(market_id)
    \/ \E market_id \in MarketIds : admin_move_market_to_resolved(market_id)
    \/ Tick

Spec == Init /\ [][Next]_vars
SpecDeep == InitDeep /\ [][Next]_vars
SpecWide == InitWide /\ [][Next]_vars
SpecLong == InitLong /\ [][Next]_vars

\* ================================================================== claims
status_of(id) == market_by_id(id).status

\* C1: bond conservation.  For every market, what was released or forfeited for
\* it never exceeds what was escrowed for it (creation bond plus dispute bonds),
\* and the currency still reserved is what the markets still hold in escrow.
C1_BondConservation ==
    /\ \A id \in MarketIds : bond_out[id] <= bond_in[id]
    /\ total_reserved(Ledger) = SumOver([id \in MarketIds |-> bond_in[id] - bond_out[id]],
                                        MarketIds)

\* C2: share/currency backing.  The custodial account of a market holds at least
\* the outstanding supply of the winning outcome's shares of a Resolved market and
\* of every outcome's shares of any other market, and redeem_shares never fails
\* with InsufficientFundsInMarketAccount.
backed(id, o) == free[market_account(id)] >= share_supply(shares, id, o)
C2_Backing ==
    \A id \in MarketIds :
        market_exists(id) =>
            /\ \A o \in Outcomes :
                   (status_of(id) = "Resolved" => Some(o) = market_by_id(id).resolved_outcome)
                       => backed(id, o)
            /\ \A sender \in Users :
                   redeem_result(sender, id) # "InsufficientFundsInMarketAccount"

\* C2 witness: a Resolved market whose winning shares are outstanding, held by a
\* user whose redemption is accepted.
C2_Witness ==
    \E id \in MarketIds, sender \in Users :
        /\ market_exists(id)
        /\ status_of(id) = "Resolved"
        /\ redeem_result(sender, id) = "Ok"
        /\ winning_balance(shares, id, unwrap(market_by_id(id).resolved_outcome), sender) > 0

\* C3: Resolved is final.  From a Resolved market a step either is the
\* administrative destruction of the record or leaves its status and its
\* resolved_outcome as they were.
C3_ResolvedIsFinal ==
    [][\A id \in MarketIds :
          (market_exists(id) /\ status_of(id) = "Resolved") =>
              \/ admin_destroy_market(id)
              \/ /\ is_some(Markets'[id])
                 /\ unwrap(Markets'[id]).status = "Resolved"
                 /\ unwrap(Markets'[id]).resolved_outcome = market_by_id(id).resolved_outcome
      ]_vars

\* C4: every status change of an existing market follows the lifecycle relation.
Lifecycle ==
    {<<"Proposed", "Active">>, <<"Active", "Reported">>, <<"Reported", "Disputed">>,
     <<"Reported", "Resolved">>, <<"Disputed", "Resolved">>}
C4_LifecycleRelation ==
    [][\A id \in MarketIds :
          (market_exists(id) /\ is_some(Markets'[id])) =>
              \/ unwrap(Markets'[id]).status = status_of(id)
              \/ <<status_of(id), unwrap(Markets'[id]).status>> \in Lifecycle
      ]_vars

\* C5: every market whose report is set has status Reported, Disputed or Resolved.
C5_ReportImpliesStatus ==
    \A id \in MarketIds :
        (market_exists(id) /\ is_some(market_by_id(id).report)) =>
            status_of(id) \in {"Reported", "Disputed", "Resolved"}

\* C6: a market has resolved_outcome set if and only if its status is Resolved.
C6_ResolvedOutcomeIffResolved ==
    \A id \in MarketIds :
        market_exists(id) =>
            (is_some(market_by_id(id).resolved_outcome) <=> status_of(id) = "Resolved")

\* C7: market ids are strictly increasing in creation order and never reused,
\* also after markets with lower ids were deleted.
C7_IdsStrictlyIncreasing ==
    \A i \in 1 .. Len(created) : \A j \in 1 .. Len(created) :
        i < j => created[i] < created[j]

\* C7 witness: a second market was created after the first was deleted.
C7_Witness ==
    /\ Len(created) = 2
    /\ is_none(Markets[created[1]])
    /\ is_some(Markets[created[2]])

\* C8: no two adjacent entries of a market's dispute sequence have the same
\* outcome, and the sequence is never longer than MaxDisputes.
C8_DisputeOrdering ==
    \A id \in MarketIds :
        /\ Len(Disputes[id]) <= MaxDisputes
        /\ \A i \in 1 .. (Len(Disputes[id]) - 1) :
               Disputes[id][i].outcome # Disputes[id][i + 1].outcome

\* C8 witness: a full dispute sequence, and a further dispute by a funded caller
\* is turned down for the cap.
C8_Witness ==
    \E id \in MarketIds, sender \in Users, outcome \in Outcomes :
        /\ Len(Disputes[id]) = MaxDisputes
        /\ can_reserve(Ledger, sender, dispute_bond(MaxDisputes))
        /\ dispute_result(sender, id, outcome) = "MaxDisputesReached"

\* C9: round trip.  After a buy of a complete set of n directly followed by a
\* sell of n by the same account on the same market, the account's currency, the
\* custodial balance and the account's balance of every outcome share are what
\* they were before the buy; and the sell that follows a buy is accepted.
C9_RoundTrip ==
    is_some(round_trip) =>
        LET t == unwrap(round_trip)
        IN  /\ t.stage = "bought" => sell_result(t.who, t.market_id, t.amount) = "Ok"
            /\ t.stage = "sold" =>
                   /\ free[t.who] = t.free
                   /\ free[market_account(t.market_id)] = t.custody
                   /\ \A o \in Outcomes :
                          share_balance(shares, t.market_id, o, t.who) = t.shares[o]

\* C9 witness: a sell has directly followed a buy of the same amount.
C9_Witness ==
    /\ is_some(round_trip)
    /\ unwrap(round_trip).stage = "sold"
    /\ unwrap(round_trip).amount > 0

\* C10: automatic resolution of an undisputed report.  A Reported market that no
\* dispute and no administrative call touches stays as it is at every step but
\* the tick of block report.at + DisputePeriod, and that tick leaves it Resolved
\* with the reported outcome.
touched(id) ==
    \/ \E sender \in Users, outcome \in 0 .. MaxCategories : dispute(sender, id, outcome)
    \/ approve_market(id)
    \/ reject_market(id)
    \/ admin_destroy_market(id)
    \/ admin_move_market_to_closed(id)
    \/ admin_move_market_to_resolved(id)
C10_AutoResolution ==
    [][\A id \in MarketIds :
          (market_exists(id) /\ status_of(id) = "Reported" /\ ~touched(id)) =>
              IF Tick /\ now = unwrap(market_by_id(id).report).at + DisputePeriod
              THEN Markets'[id] =
                       Some(resolved_market(market_by_id(id),
                                            unwrap(market_by_id(id).report).outcome))
              ELSE Markets'[id] = Markets[id]
      ]_vars

\* C11: outcome determination.  Every step that resolves a Reported market leaves
\* resolved_outcome equal to the report's outcome, and every step that resolves a
\* Disputed market leaves it equal to the outcome of the last dispute, whatever
\* the report and the earlier disputes say.
C11_OutcomeDetermination ==
    [][\A id \in MarketIds :
          (/\ market_exists(id)
           /\ status_of(id) \in {"Reported", "Disputed"}
           /\ is_some(Markets'[id])
           /\ unwrap(Markets'[id]).status = "Resolved") =>
              unwrap(Markets'[id]).resolved_outcome =
                  IF status_of(id) = "Reported"
                  THEN Some(unwrap(market_by_id(id).report).outcome)
                  ELSE Some(Disputes[id][Len(Disputes[id])].outcome)
      ]_vars

\* C11 witness: a market resolved by the tick after two disputes, to the outcome of
\* the last dispute, which is not the outcome of the first.
C11_Witness ==
    \E id \in MarketIds :
        /\ market_exists(id)
        /\ status_of(id) = "Resolved"
        /\ Len(Disputes[id]) = 2
        /\ Disputes[id][1].outcome # Disputes[id][2].outcome
        /\ market_by_id(id).resolved_outcome = Some(Disputes[id][2].outcome)

\* C12: reporting authorization.  On a market without a report, for every caller
\* and every outcome that passes the range check: while the market is open the
\* report is rejected with MarketNotClosed; once it has closed the oracle's report
\* is accepted, and another caller's report fails with ReporterNotOracle while
\* now <= end + ReportingPeriod and is accepted once now > end + ReportingPeriod.
C12_ReportingAuthorization ==
    \A id \in MarketIds, sender \in Users, outcome \in 0 .. MaxCategories :
        (/\ market_exists(id)
         /\ is_none(market_by_id(id).report)
         /\ outcome <= outcomes(market_by_id(id))) =>
            LET market == market_by_id(id)
                result == report_result(sender, id, outcome)
            IN  IF now < market.end THEN result = "MarketNotClosed"
                ELSE IF sender = market.oracle THEN result = "Ok"
                ELSE IF now <= market.end + ReportingPeriod THEN result = "ReporterNotOracle"
                ELSE result = "Ok"

\* C12 witness: a market carries the report of a caller who is not its oracle, and
\* another market, closed and in its grace period, turns such a caller down.
C12_Witness ==
    \E id \in MarketIds, other \in MarketIds, sender \in Users :
        /\ market_exists(id)
        /\ is_some(market_by_id(id).report)
        /\ unwrap(market_by_id(id).report).by # market_by_id(id).oracle
        /\ market_exists(other)
        /\ sender # market_by_id(other).oracle
        /\ report_result(sender, other, 0) = "ReporterNotOracle"

\* C13: approve_market succeeds only on an existing market whose status is
\* Proposed; on an unknown id and on a market in any other status it fails, no
\* bond is released and no status changes.
C13_ApproveOnlyProposed ==
    [][\A id \in MarketIds :
          /\ approve_market(id) => (market_exists(id) /\ status_of(id) = "Proposed")
          /\ ~market_exists(id) => approve_result(id) = "MarketDoesNotExist"
      ]_vars


\* the inputs the calls are tried with in every state: amounts, category counts,
\* end blocks and outcomes on both sides of every check
CallAmounts == Amounts \cup {5}
CallCategories == {MaxCategories, MaxCategories + 1}
CallEnds == {now, now + 1}
CallCreations == {"Permissionless", "Advised"}
CallOutcomes == 0 .. (MaxCategories + 1)
Rejected(r) == r.ret \notin {"Ok", "Panic"}

\* a rejected call leaves the storage as it was
Atomic(r) == Rejected(r) => r.S = Storage
AllAtomic ==
    /\ \A s \in Users, e \in CallEnds, c \in CallCreations, k \in CallCategories :
          Atomic(create_call(s, s, e, c, k))
    /\ \A s \in Users, id \in MarketIds :
          Atomic(cancel_call(s, id)) /\ Atomic(redeem_call(s, id))
    /\ \A s \in Users, id \in MarketIds, a \in CallAmounts :
          Atomic(buy_call(s, id, a)) /\ Atomic(sell_call(s, id, a))
    /\ \A s \in Users, id \in MarketIds, o \in CallOutcomes :
          Atomic(report_call(s, id, o)) /\ Atomic(dispute_call(s, id, o))

\* the statement-by-statement calls and the actions are the same operations
CallsAgree ==
    /\ \A s \in Users, o \in Users, e \in CallEnds, c \in CallCreations, k \in CategoryInputs :
          create_categorical_market(s, o, e, c, k) =>
              create_call(s, o, e, c, k) = [S |-> Storage', ret |-> "Ok"]
    /\ \A s \in Users, id \in MarketIds :
          /\ cancel_pending_market(s, id) => cancel_call(s, id) = [S |-> Storage', ret |-> "Ok"]
          /\ redeem_shares(s, id) => redeem_call(s, id) = [S |-> Storage', ret |-> "Ok"]
    /\ \A s \in Users, id \in MarketIds, a \in Amounts :
          /\ buy_complete_set(s, id, a) => buy_call(s, id, a) = [S |-> Storage', ret |-> "Ok"]
          /\ sell_complete_set(s, id, a) => sell_call(s, id, a) = [S |-> Storage', ret |-> "Ok"]
    /\ \A s \in Users, id \in MarketIds, o \in 0 .. MaxCategories :
          /\ report(s, id, o) => report_call(s, id, o) = [S |-> Storage', ret |-> "Ok"]
          /\ dispute(s, id, o) => dispute_call(s, id, o) = [S |-> Storage', ret |-> "Ok"]

\* C14: a call of create, buy, sell, report, dispute, cancel or redeem that
\* returns an error leaves the storage -- market records, disputes, both indexes,
\* the identifier counter, currency and share balances -- exactly as it was.
C14_RejectionIsAtomic ==
    /\ []AllAtomic
    /\ [][CallsAgree]_vars
\* a state in which each of the seven dispatchables has a rejected call: a dispute
\* that repeats the last dispute's outcome from a caller who could pay the bond, a
\* creation and a purchase the caller cannot pay, a sale without the shares, a
\* second report, a cancellation by a stranger, a redemption before resolution
C14_Witness ==
    \E id \in MarketIds, s \in Users, o \in Outcomes :
        /\ dispute_call(s, id, o).ret = "CannotDisputeSameOutcome"
        /\ can_reserve(Ledger, s, dispute_bond(Len(Disputes[id])))
        /\ report_call(s, id, o).ret = "MarketAlreadyReported"
        /\ redeem_call(s, id).ret = "MarketNotResolved"
        /\ \E t \in Users : cancel_call(t, id).ret \in {"CancellerNotCreator", "MarketNotPending"}
        /\ \E t \in Users, a \in CallAmounts : buy_call(t, id, a).ret = "NotEnoughBalance"
        /\ \E t \in Users, a \in CallAmounts :
              sell_call(t, id, a).ret \in {"MarketNotActive", "InsufficientShareBalance"}
        /\ \E t \in Users, e \in CallEnds, c \in CallCreations, k \in CallCategories :
              create_call(t, t, e, c, k).ret = "InsufficientBalance"


\* the id is a member of some bucket of the index
scheduled(index, id) == \E b \in DOMAIN index : contains(index[b], id)

\* C15: after admin_destroy_market(id) succeeds, whatever the market's status, the
\* record is gone and id is in no bucket of the report-window index and in no
\* bucket of the dispute-window index.
C15_DestroyClearsIndexes ==
    [][\A id \in MarketIds :
          admin_destroy_market(id) =>
              /\ is_none(Markets'[id])
              /\ ~scheduled(MarketIdsPerReportBlock', id)
              /\ ~scheduled(MarketIdsPerDisputeBlock', id)
      ]_vars


\* C16: admin_move_market_to_resolved is accepted only on a Reported or Disputed
\* market, and after it the market is Resolved and its id is in no bucket of
\* either index.
C16_ForceResolveClearsIndexes ==
    [][\A id \in MarketIds :
          admin_move_market_to_resolved(id) =>
              /\ market_exists(id) /\ status_of(id) \in {"Reported", "Disputed"}
              /\ is_some(Markets'[id]) /\ unwrap(Markets'[id]).status = "Resolved"
              /\ ~scheduled(MarketIdsPerReportBlock', id)
              /\ ~scheduled(MarketIdsPerDisputeBlock', id)
      ]_vars


\* the places <<bucket, position>> where the id occurs in the index
occurrences(index, id) ==
    {p \in UNION {{<<b, i>> : i \in 1 .. Len(index[b])} : b \in DOMAIN index} :
        index[p[1]][p[2]] = id}

\* C17: every market id occurs at most once in the report-window index and at most
\* once in the dispute-window index; a dispute on a market that already has one
\* takes the id out of the bucket of the previous dispute's block and puts it into
\* the bucket of the current block.
C17_OneBucketPerIndex ==
    /\ [](\A id \in MarketIds :
            /\ Cardinality(occurrences(MarketIdsPerReportBlock, id)) <= 1
            /\ Cardinality(occurrences(MarketIdsPerDisputeBlock, id)) <= 1)
    /\ [][\A s \in Users, id \in MarketIds, o \in Outcomes :
            (dispute(s, id, o) /\ Len(Disputes[id]) > 0) =>
                LET at == Disputes[id][Len(Disputes[id])].at
                IN  /\ at # now => ~contains(MarketIdsPerDisputeBlock'[at], id)
                    /\ occurrences(MarketIdsPerDisputeBlock', id) =
                           {<<now, Len(MarketIdsPerDisputeBlock'[now])>>}
        ]_vars
\* a market whose second dispute was filed in a later block than its first: the id
\* sits in the report bucket and in the second dispute's bucket only
C17_Witness ==
    \E id \in MarketIds :
        /\ Len(Disputes[id]) = 2
        /\ Disputes[id][1].at < Disputes[id][2].at
        /\ occurrences(MarketIdsPerDisputeBlock, id) = {<<Disputes[id][2].at, 1>>}
        /\ Cardinality(occurrences(MarketIdsPerReportBlock, id)) = 1


\* C18: a market is reported at most once and its report is immutable: once the
\* report is set, every further report is refused (MarketAlreadyReported when the
\* outcome passes the range check), and no step changes the report of a market
\* that stays in the table.
C18_ReportOnceImmutable ==
    /\ [](\A id \in MarketIds, sender \in Users, outcome \in CallOutcomes :
            (market_exists(id) /\ is_some(market_by_id(id).report)) =>
                /\ report_result(sender, id, outcome) # "Ok"
                /\ outcome <= outcomes(market_by_id(id)) =>
                       report_result(sender, id, outcome) = "MarketAlreadyReported")
    /\ [][\A id \in MarketIds :
            (market_exists(id) /\ is_some(market_by_id(id).report) /\ is_some(Markets'[id])) =>
                unwrap(Markets'[id]).report = market_by_id(id).report
        ]_vars
\* a market reported in an earlier block that has since been disputed or resolved
C18_Witness ==
    \E id \in MarketIds :
        /\ market_exists(id)
        /\ is_some(market_by_id(id).report)
        /\ unwrap(market_by_id(id).report).at < now
        /\ status_of(id) \in {"Disputed", "Resolved"}
        /\ \E sender \in Users : report_result(sender, id, 0) = "MarketAlreadyReported"


\* s is an initial segment of t
IsPrefix(s, t) == Len(s) <= Len(t) /\ SubSeq(t, 1, Len(s)) = s

\* C19: the dispute ledger is append-only: over every step the dispute sequence of
\* every market is a prefix of its sequence afterwards, and a successful dispute
\* appends exactly one entry -- the caller, the outcome, the current block -- at the end.
C19_DisputesAppendOnly ==
    [][\A id \in MarketIds :
          /\ IsPrefix(Disputes[id], Disputes'[id])
          /\ \A s \in Users, o \in Outcomes :
                dispute(s, id, o) =>
                    /\ Len(Disputes'[id]) = Len(Disputes[id]) + 1
                    /\ Disputes'[id][Len(Disputes'[id])] = [at |-> now, by |-> s, outcome |-> o]
          /\ (\A s \in Users, o \in Outcomes : ~dispute(s, id, o)) => Disputes'[id] = Disputes[id]
      ]_vars
\* a ledger of two disputes by different callers, in the order they were filed
C19_Witness ==
    \E id \in MarketIds :
        /\ Len(Disputes[id]) = 2
        /\ Disputes[id][1].by # Disputes[id][2].by
        /\ Disputes[id][1].at <= Disputes[id][2].at


\* C20: redeem_shares is refused with MarketNotResolved unless the market is
\* Resolved; on a Resolved market it is accepted and, for a caller holding w
\* shares of the winning outcome, burns exactly those w shares, adds w to the
\* caller's currency, takes w from the custodial account and leaves every other
\* balance -- currency, reserve, shares -- as it was.
C20_Redemption ==
    /\ [](\A id \in MarketIds, s \in Users :
            market_exists(id) =>
                redeem_result(s, id) =
                    IF status_of(id) = "Resolved" THEN "Ok" ELSE "MarketNotResolved")
    /\ [][\A id \in MarketIds, s \in Users :
            redeem_shares(s, id) =>
                LET ro == unwrap(market_by_id(id).resolved_outcome)
                    w == winning_balance(shares, id, ro, s)
                IN  /\ status_of(id) = "Resolved"
                    /\ shares' = IF ro \in Outcomes THEN [shares EXCEPT ![id][ro][s] = 0]
                                 ELSE shares
                    /\ free' = [free EXCEPT ![s] = @ + w, ![market_account(id)] = @ - w]
                    /\ reserved' = reserved
        ]_vars
\* a redemption of at least one winning share has just been paid
C20_Witness ==
    /\ is_some(round_trip)
    /\ unwrap(round_trip).stage = "redeemed"
    /\ unwrap(round_trip).amount >= 1
    /\ free[unwrap(round_trip).who] = unwrap(round_trip).free + unwrap(round_trip).amount


\* the outcome currently registered for a reported market: the report's while no
\* dispute has been filed, the most recent dispute's afterwards
registered_outcome(id) ==
    IF Len(Disputes[id]) = 0 THEN unwrap(market_by_id(id).report).outcome
    ELSE Disputes[id][Len(Disputes[id])].outcome

\* C21: a dispute whose outcome equals the outcome currently registered for the
\* market is refused with CannotDisputeSameOutcome (while the ledger has room for
\* a dispute at all).
C21_DisputeSameOutcomeRejected ==
    \A id \in MarketIds, sender \in Users :
        (/\ market_exists(id)
         /\ is_some(market_by_id(id).report)
         /\ Len(Disputes[id]) < MaxDisputes
         /\ registered_outcome(id) < outcomes(market_by_id(id))) =>
            dispute_result(sender, id, registered_outcome(id)) = "CannotDisputeSameOutcome"


\* what an account owns: free and reserved together (an unreserve leaves it as it is)
holdings(L, who) == L.free[who] + L.reserved[who]

\* C22: oracle-bond settlement of an undisputed market.  Whenever internal_resolve
\* runs on a Reported market: if the report is the oracle's, the creator's escrow
\* is released (nobody's holdings change and at least OracleBond leaves the
\* creator's reserve); otherwise exactly OracleBond leaves the creator's holdings
\* and is added to the free balance of the account that reported.
C22_OracleBondSettlement ==
    \A id \in MarketIds :
        (market_exists(id) /\ status_of(id) = "Reported" /\ ~resolve_fails(World, id)) =>
            LET market == market_by_id(id)
                by == unwrap(market.report).by
                after == internal_resolve(World, id).L
            IN  IF by = market.oracle
                THEN /\ \A a \in Users : holdings(after, a) = holdings(Ledger, a)
                     /\ Ledger.reserved[market.creator] - after.reserved[market.creator]
                            >= OracleBond
                ELSE /\ \A a \in Users :
                            holdings(after, a) =
                                holdings(Ledger, a)
                                + (IF a = by THEN OracleBond ELSE 0)
                                - (IF a = market.creator THEN OracleBond ELSE 0)
                     /\ by # market.creator => after.reserved[by] = Ledger.reserved[by]


\* the bonds of the dispute entries in I, each DisputeBond + DisputeFactor * (its
\* 0-based position), as they were escrowed
bonds_of(I) == SumOver([i \in I |-> dispute_bond(i - 1)], I)

\* C23: settlement of a Disputed market.  Whenever internal_resolve runs on a
\* Disputed market with resolved outcome ro: every dispute entry for ro has its
\* bond released to its author; every other entry's bond, and the oracle bond when
\* the report's outcome is not ro, are forfeited into a pool P; each of the c
\* entries for ro earns its author P \div c, and P % c reaches no account.
C23_DisputedSettlement ==
    \A id \in MarketIds :
        (market_exists(id) /\ status_of(id) = "Disputed" /\ ~resolve_fails(World, id)) =>
            LET market == market_by_id(id)
                disputes == Disputes[id]
                ro == resolved_outcome_of(market, disputes)
                after == internal_resolve(World, id).L
                right == {i \in 1 .. Len(disputes) : disputes[i].outcome = ro}
                wrong == {i \in 1 .. Len(disputes) : disputes[i].outcome # ro}
                by(I, a) == {i \in I : disputes[i].by = a}
                oracle_forfeit == IF unwrap(market.report).outcome # ro THEN OracleBond ELSE 0
                P == bonds_of(wrong) + oracle_forfeit
                c == Cardinality(right)
            IN  /\ \A a \in Users :
                      holdings(after, a) =
                          holdings(Ledger, a)
                          - bonds_of(by(wrong, a))
                          - (IF a = market.creator THEN oracle_forfeit ELSE 0)
                          + Cardinality(by(right, a)) * (P \div c)
                /\ \A a \in Users \ {market.creator} :
                      after.reserved[a] =
                          Ledger.reserved[a] - bonds_of(by(right, a)) - bonds_of(by(wrong, a))
                /\ SumOver([a \in Users |-> holdings(Ledger, a)], Users)
                   - SumOver([a \in Users |-> holdings(after, a)], Users) = P % c


\* the correct_reporters internal_resolve would collect on the Disputed market id
correct_reporters(id) ==
    disputed_settlement(Ledger, market_by_id(id), Disputes[id],
                        resolved_outcome_of(market_by_id(id), Disputes[id])).correct

\* C24: the reward divisor is never zero: a Disputed market has a non-empty dispute
\* sequence, so when internal_resolve runs on it the last dispute exists, and the
\* number of correct reporters it divides by is at least 1.
C24_DivisorNeverZero ==
    \A id \in MarketIds :
        (market_exists(id) /\ status_of(id) = "Disputed") =>
            /\ is_some(market_by_id(id).report)
            /\ Len(Disputes[id]) >= 1
            /\ Len(correct_reporters(id)) >= 1
\* a Disputed market with two disputes of which only the last is correct
C24_Witness ==
    \E id \in MarketIds :
        /\ market_exists(id)
        /\ status_of(id) = "Disputed"
        /\ Len(Disputes[id]) = 2
        /\ unwrap(market_by_id(id).report).outcome # Disputes[id][2].outcome
        /\ correct_reporters(id) = <<Disputes[id][2].by>>


\* C25: internal_resolve runs only on markets whose status is Reported or Disputed:
\* every step that writes a market's resolved_outcome (the tick or
\* admin_move_market_to_resolved) finds the market Reported or Disputed, and no
\* market ever carries the fallback outcome of the status match.
C25_ResolveOnlyReportedOrDisputed ==
    /\ [](\A id \in MarketIds :
            market_exists(id) => market_by_id(id).resolved_outcome # Some(FallbackOutcome))
    /\ [][\A id \in MarketIds :
            (/\ market_exists(id) /\ is_some(Markets'[id])
             /\ unwrap(Markets'[id]).resolved_outcome # market_by_id(id).resolved_outcome) =>
                status_of(id) \in {"Reported", "Disputed"}
        ]_vars


\* C26: outcome-share cleanup.  Whenever internal_resolve runs on a market, right
\* afterwards every account's balance of every outcome share of the market other
\* than resolved_outcome is zero and every account's balance of the
\* resolved_outcome share is what it was; the shares of other markets are untouched.
C26_ShareCleanup ==
    \A id \in MarketIds :
        (market_exists(id) /\ ~resolve_fails(World, id)) =>
            LET W == internal_resolve(World, id)
                ro == unwrap(unwrap(W.Markets[id]).resolved_outcome)
            IN  /\ \A o \in Outcomes, a \in Users :
                      share_balance(W.shares, id, o, a) =
                          IF o = ro THEN share_balance(shares, id, o, a) ELSE 0
                /\ \A other \in MarketIds \ {id} : W.shares[other] = shares[other]
\* a market the tick or the administrator has resolved while shares were out: an
\* account holds the winning share and none of any other outcome
C26_Witness ==
    \E id \in MarketIds, a \in Users :
        /\ market_exists(id)
        /\ status_of(id) = "Resolved"
        /\ \E o \in Outcomes :
              /\ market_by_id(id).resolved_outcome = Some(o)
              /\ share_balance(shares, id, o, a) >= 1
              /\ \A p \in Outcomes \ {o}, b \in Users : share_balance(shares, id, p, b) = 0


\* C27: the tick never hits a fatal fault: in every reachable state on_finalize of
\* the current block finds a market record for every id of the two buckets it
\* processes and every internal_resolve it calls succeeds, and no earlier tick
\* has panicked.
C27_TickNeverPanics ==
    /\ ~halted
    /\ on_finalize(World, now).ok


\* C28: every Resolved market's resolved_outcome is an outcome index of that
\* market: resolved_outcome < categories.
C28_ResolvedOutcomeInRange ==
    \A id \in MarketIds :
        (market_exists(id) /\ status_of(id) = "Resolved"
         /\ is_some(market_by_id(id).resolved_outcome)) =>
            unwrap(market_by_id(id).resolved_outcome) < outcomes(market_by_id(id))


\* C29: closing is permanent.  A market that is closed (not is_market_active) is
\* closed after every step that keeps its record, admin_move_market_to_closed
\* included; and on a market that has a report no buy_complete_set and no
\* sell_complete_set is accepted, for any caller and amount.
C29_ClosingIsPermanent ==
    /\ [][\A id \in MarketIds :
            (/\ market_exists(id) /\ ~is_market_active(market_by_id(id).end)
             /\ is_some(Markets'[id])) =>
                ~(now' < unwrap(Markets'[id]).end)
        ]_vars
    /\ [](\A id \in MarketIds, who \in Users, amount \in CallAmounts :
            (market_exists(id) /\ is_some(market_by_id(id).report)) =>
                /\ buy_result(who, id, amount) \in {"MarketNotActive", "NotEnoughBalance"}
                /\ sell_result(who, id, amount) = "MarketNotActive")
\* a reported market that admin_move_market_to_closed has since moved to a later
\* end block: it is still closed
C29_Witness ==
    \E id \in MarketIds :
        /\ market_exists(id)
        /\ is_some(market_by_id(id).report)
        /\ unwrap(market_by_id(id).report).at < market_by_id(id).end
        /\ market_by_id(id).end = now
        /\ \E who \in Users : buy_result(who, id, 1) = "MarketNotActive"


\* C30: each dispute restarts the dispute window.  A tick that resolves a Disputed
\* market is never earlier than the tick of block d + DisputePeriod, d being the
\* block of the market's most recent dispute.
C30_DisputeRestartsWindow ==
    [][\A id \in MarketIds :
          (/\ Tick
           /\ market_exists(id) /\ status_of(id) = "Disputed"
           /\ is_some(Markets'[id]) /\ unwrap(Markets'[id]).status = "Resolved") =>
              now >= Disputes[id][Len(Disputes[id])].at + DisputePeriod
      ]_vars
\* a market disputed in a later block than it was reported and resolved by the tick
\* of the dispute's block + DisputePeriod, one block after the report's own window
C30_Witness ==
    \E id \in MarketIds :
        /\ market_exists(id)
        /\ status_of(id) = "Resolved"
        /\ Len(Disputes[id]) >= 1
        /\ LET d == Disputes[id][Len(Disputes[id])]
           IN  /\ unwrap(market_by_id(id).report).at < d.at
               /\ now = d.at + DisputePeriod + 1
               /\ market_by_id(id).resolved_outcome = Some(d.outcome)
               /\ contains(MarketIdsPerDisputeBlock[d.at], id)

====
